---- MODULE Spec2Model ----
(***************************************************************************)
(* Model of models/modules.py: the functional geometry utilities           *)
(* get_depth_values, homo_warp and depth_regression, with the tensor       *)
(* operations (reshape, unsqueeze, view, slicing, broadcasting, matmul,    *)
(* grid_sample) they are built from.                                       *)
(*                                                                         *)
(* Numbers are exact: a float is a pair <<n, d>>, the rational n/d in      *)
(* lowest terms with d > 0, or one of the three non-finite values          *)
(* <<1,0>> (+inf), <<-1,0>> (-inf), <<0,0>> (NaN).  Rounding of float32    *)
(* arithmetic and the sign of zero are not modelled.                       *)
(*                                                                         *)
(* A tensor is a record [err, shape, data]: shape is the sequence of       *)
(* dimension sizes, data maps every 0-based index tuple to a number.  A    *)
(* raised exception (RuntimeError of a shape mismatch) is the tensor       *)
(* RaisedError, which every later operation propagates.                    *)
(***************************************************************************)
EXTENDS Integers, Sequences, FiniteSets, TLC

VARIABLES stage, gdv_call, depth_volume, warp_call, sample_grid, warped_volume,
          caller, reg_call, depth_map

vars == <<stage, gdv_call, depth_volume, warp_call, sample_grid, warped_volume,
          caller, reg_call, depth_map>>

-----------------------------------------------------------------------------
(* Bounds of the model. *)

MaxBatch == 2
MaxSide == 2
MaxDepths == 5

-----------------------------------------------------------------------------
(* Floating-point numbers, exact. *)

Abs(n) == IF n < 0 THEN -n ELSE n

Sign(n) == IF n < 0 THEN -1 ELSE IF n = 0 THEN 0 ELSE 1

RECURSIVE Gcd(_, _)
Gcd(a, b) == IF b = 0 THEN a ELSE Gcd(b, a % b)

NaN == <<0, 0>>

Inf(s) == <<s, 0>>

Frac(n, d) ==
    IF d = 0 THEN Inf(Sign(n))
    ELSE LET g == Gcd(Abs(n), Abs(d))
         IN  <<Sign(d) * (n \div g), Abs(d) \div g>>

Num(n) == <<n, 1>>

IsFinite(x) == x[2] # 0

IsNaN(x) == x = NaN

FAdd(x, y) ==
    IF IsFinite(x) /\ IsFinite(y) THEN Frac(x[1] * y[2] + y[1] * x[2], x[2] * y[2])
    ELSE IF IsNaN(x) \/ IsNaN(y) THEN NaN
    ELSE IF IsFinite(x) THEN y
    ELSE IF IsFinite(y) THEN x
    ELSE IF x = y THEN x ELSE NaN

FNeg(x) == <<-x[1], x[2]>>

FSub(x, y) == FAdd(x, FNeg(y))

FMul(x, y) ==
    IF IsFinite(x) /\ IsFinite(y) THEN Frac(x[1] * y[1], x[2] * y[2])
    ELSE IF IsNaN(x) \/ IsNaN(y) THEN NaN
    ELSE IF x[1] = 0 \/ y[1] = 0 THEN NaN
    ELSE Inf(Sign(x[1]) * Sign(y[1]))

FDiv(x, y) ==
    IF IsNaN(x) \/ IsNaN(y) THEN NaN
    ELSE IF IsFinite(x) /\ IsFinite(y) THEN
        IF y[1] = 0 THEN Inf(Sign(x[1])) ELSE Frac(x[1] * y[2], x[2] * y[1])
    ELSE IF IsFinite(x) THEN Num(0)
    ELSE IF IsFinite(y) THEN Inf(x[1] * (IF y[1] < 0 THEN -1 ELSE 1))
    ELSE NaN

\* Comparisons: false as soon as an operand is NaN.
FLess(x, y) ==
    IF IsNaN(x) \/ IsNaN(y) THEN FALSE
    ELSE IF IsFinite(x) /\ IsFinite(y) THEN x[1] * y[2] < y[1] * x[2]
    ELSE IF IsFinite(x) THEN y[1] > 0
    ELSE IF IsFinite(y) THEN x[1] < 0
    ELSE x[1] < y[1]

FLeq(x, y) == FLess(x, y) \/ (~IsNaN(x) /\ x = y)

Floor(x) == x[1] \div x[2]

-----------------------------------------------------------------------------
(* Tensors. *)

RECURSIVE Indices(_)
Indices(shape) ==
    IF shape = <<>> THEN {<<>>}
    ELSE {<<i>> \o r : i \in 0..(shape[1] - 1), r \in Indices(Tail(shape))}

RECURSIVE Numel(_)
Numel(shape) == IF shape = <<>> THEN 1 ELSE shape[1] * Numel(Tail(shape))

Tensor(shape, data) == [err |-> FALSE, shape |-> shape, data |-> data]

RaisedError == [err |-> TRUE, shape |-> <<>>, data |-> <<>>]

Ndim(t) == Len(t.shape)

Full(shape, x) == Tensor(shape, [i \in Indices(shape) |-> x])

Scalar(x) == Full(<<>>, x)

\* Position of an index tuple in the row-major (contiguous) layout.
RECURSIVE Offset(_, _)
Offset(shape, idx) ==
    IF shape = <<>> THEN 0
    ELSE idx[1] * Numel(Tail(shape)) + Offset(Tail(shape), Tail(idx))

RECURSIVE Unravel(_, _)
Unravel(shape, off) ==
    IF shape = <<>> THEN <<>>
    ELSE LET n == Numel(Tail(shape))
         IN  <<off \div n>> \o Unravel(Tail(shape), off % n)

\* t.view(shape) / t.reshape(shape) of a contiguous tensor: the element count
\* must agree, the row-major order is kept.
View(t, shape) ==
    IF t.err \/ Numel(t.shape) # Numel(shape) THEN RaisedError
    ELSE Tensor(shape, [i \in Indices(shape) |-> t.data[Unravel(t.shape, Offset(shape, i))]])

\* t.unsqueeze(1)
Unsqueeze1(t) ==
    IF t.err \/ Ndim(t) < 1 THEN RaisedError
    ELSE View(t, <<t.shape[1], 1>> \o Tail(t.shape))

\* Broadcasting of two shapes: aligned at the trailing dimension, a size of 1
\* stretches, any other disagreement is an error (the empty set).
LeftPad(shape, n) == [i \in 1..(n - Len(shape)) |-> 1] \o shape

Max(a, b) == IF a >= b THEN a ELSE b

BroadcastOk(s1, s2) ==
    LET n == Max(Len(s1), Len(s2))
        a == LeftPad(s1, n)
        b == LeftPad(s2, n)
    IN  \A i \in 1..n : a[i] = b[i] \/ a[i] = 1 \/ b[i] = 1

BroadcastShape(s1, s2) ==
    LET n == Max(Len(s1), Len(s2))
        a == LeftPad(s1, n)
        b == LeftPad(s2, n)
    IN  [i \in 1..n |-> IF a[i] = 1 THEN b[i] ELSE a[i]]

\* The element of t that index idx of a broadcast result reads.
BroadcastGet(t, idx) ==
    LET k == Len(idx) - Ndim(t)
    IN  t.data[[i \in 1..Ndim(t) |-> IF t.shape[i] = 1 THEN 0 ELSE idx[k + i]]]

\* One elementwise arithmetic operation of two numbers.
Apply(op, x, y) ==
    IF op = "+" THEN FAdd(x, y)
    ELSE IF op = "-" THEN FSub(x, y)
    ELSE IF op = "*" THEN FMul(x, y)
    ELSE FDiv(x, y)

Elementwise(op, a, b) ==
    IF a.err \/ b.err THEN RaisedError
    ELSE IF ~BroadcastOk(a.shape, b.shape) THEN RaisedError
    ELSE LET shape == BroadcastShape(a.shape, b.shape)
         IN  Tensor(shape, [i \in Indices(shape) |->
                                Apply(op, BroadcastGet(a, i), BroadcastGet(b, i))])

Add(a, b) == Elementwise("+", a, b)
Sub(a, b) == Elementwise("-", a, b)
Mul(a, b) == Elementwise("*", a, b)
Div(a, b) == Elementwise("/", a, b)

\* Faulty variant: torch.arange(1, n + 1).
ArangeFromOne(n) ==
    Tensor(<<1, n, 1, 1>>, [i \in Indices(<<1, n, 1, 1>>) |-> Num(i[2] + 1)])

\* torch.arange(0, n).reshape(1, -1, 1, 1)
Arange(n) == Tensor(<<1, n, 1, 1>>, [i \in Indices(<<1, n, 1, 1>>) |-> Num(i[2])])

-----------------------------------------------------------------------------
(* get_depth_values.  depth_interval is either a Python float,             *)
(* [float |-> TRUE, val |-> x], or a tensor, [float |-> FALSE, t |-> t].   *)

Float(x) == [float |-> TRUE, val |-> x]

Array(t) == [float |-> FALSE, t |-> t]

\* Faulty variant: the floor division n_depths//2.
HalfDepthsFloor(n_depths) == Num(n_depths \div 2)

\* n_depths/2 of line 60: the true division of Python 3.
HalfDepths(n_depths) == Frac(n_depths, 2)

\* Faulty variant: the new axis of a (B, H, W) interval put first, unsqueeze(0), and a
\* (B, 1) interval reshaped to (1, -1, 1, 1).
NormalizeIntervalAxis0(depth_interval) ==
    IF depth_interval.float THEN Scalar(depth_interval.val)
    ELSE IF Ndim(depth_interval.t) = 2
        THEN View(depth_interval.t, <<1, Numel(depth_interval.t.shape), 1, 1>>)
    ELSE IF Ndim(depth_interval.t) = 3
        THEN View(depth_interval.t, <<1>> \o depth_interval.t.shape)
    ELSE depth_interval.t

\* Lines 55-59: the reshaping of a non-float depth_interval.
NormalizeInterval(depth_interval) ==
    IF depth_interval.float THEN Scalar(depth_interval.val)
    ELSE IF Ndim(depth_interval.t) = 2
        THEN View(depth_interval.t, <<Numel(depth_interval.t.shape), 1, 1, 1>>)
    ELSE IF Ndim(depth_interval.t) = 3 THEN Unsqueeze1(depth_interval.t)
    ELSE depth_interval.t

get_depth_values(current_depth, n_depths, depth_interval) ==
    LET interval == NormalizeInterval(depth_interval)
        depth_min == Sub(current_depth, Mul(Scalar(HalfDepths(n_depths)), interval))
    IN  Add(depth_min, Mul(interval, Arange(n_depths)))

-----------------------------------------------------------------------------
(* homo_warp. *)

\* t[:, lo:hi] on the given axis (1-based position in shape), with Python's
\* clipping of the bounds.
Slice(t, axis, lo, hi) ==
    IF t.err \/ Ndim(t) < axis THEN RaisedError
    ELSE LET size == t.shape[axis]
             from == IF lo > size THEN size ELSE lo
             to == IF hi > size THEN size ELSE IF hi < from THEN from ELSE hi
             shape == [t.shape EXCEPT ![axis] = to - from]
         IN  Tensor(shape, [i \in Indices(shape) |->
                                t.data[[i EXCEPT ![axis] = i[axis] + from]]])

\* t.permute(perm), perm given with 1-based axes.
Permute(t, perm) ==
    IF t.err THEN RaisedError
    ELSE LET shape == [k \in 1..Ndim(t) |-> t.shape[perm[k]]]
         IN  Tensor(shape, [i \in Indices(shape) |->
                 t.data[[a \in 1..Ndim(t) |->
                           i[CHOOSE k \in 1..Ndim(t) : perm[k] = a]]]])

\* t.expand(B, -1, -1) of a tensor whose first dimension is 1.
Expand(t, B) ==
    LET shape == <<B>> \o Tail(t.shape)
    IN  Tensor(shape, [i \in Indices(shape) |-> t.data[<<0>> \o Tail(i)]])

\* torch.cat((t, torch.ones_like(t[:, :1])), 1)
CatOnes(t) ==
    LET shape == [t.shape EXCEPT ![2] = t.shape[2] + 1]
    IN  Tensor(shape, [i \in Indices(shape) |->
                           IF i[2] < t.shape[2] THEN t.data[i] ELSE Num(1)])

\* t.repeat(1, 1, D)
Repeat(t, D) ==
    LET shape == [t.shape EXCEPT ![3] = t.shape[3] * D]
    IN  Tensor(shape, [i \in Indices(shape) |->
                           t.data[[i EXCEPT ![3] = i[3] % t.shape[3]]]])

RECURSIVE Dot(_, _, _, _, _, _)
Dot(a, ba, r, b, bb, n) ==
    LET Term(k) == FMul(a.data[<<ba, r, k>>], b.data[<<bb, k, n>>])
        RECURSIVE Upto(_)
        Upto(k) == IF k = 0 THEN Term(0) ELSE FAdd(Upto(k - 1), Term(k))
    IN  Upto(a.shape[3] - 1)

\* a @ b for a of shape (Ba, r, k) and b of shape (Bb, k, n): the batch
\* dimensions broadcast, the inner dimensions must agree.
MatMul(a, b) ==
    IF a.err \/ b.err THEN RaisedError
    ELSE IF a.shape[3] # b.shape[2] \/ a.shape[3] = 0 THEN RaisedError
    ELSE IF ~BroadcastOk(<<a.shape[1]>>, <<b.shape[1]>>) THEN RaisedError
    ELSE LET shape == <<BroadcastShape(<<a.shape[1]>>, <<b.shape[1]>>)[1],
                        a.shape[2], b.shape[3]>>
         IN  Tensor(shape, [i \in Indices(shape) |->
                 Dot(a, IF a.shape[1] = 1 THEN 0 ELSE i[1], i[2],
                     b, IF b.shape[1] = 1 THEN 0 ELSE i[1], i[3])])

\* kornia's create_meshgrid(H, W, normalized_coordinates=False): (1, H, W, 2),
\* the last axis holding (x, y) = (column, row).
create_meshgrid(H, W) ==
    Tensor(<<1, H, W, 2>>,
           [i \in Indices(<<1, H, W, 2>>) |-> IF i[4] = 0 THEN Num(i[3]) ELSE Num(i[2])])

\* Lines 82-87: the homogeneous pixel grid of the reference frame, (B, 3, H*W).
RefGrid(B, H, W) ==
    CatOnes(Expand(View(Permute(create_meshgrid(H, W), <<1, 4, 2, 3>>),
                        <<1, 2, H * W>>), B))

\* Lines 93-94: the rescaling of rows 0 and 1 to the range -1..1, written in
\* place.  (W - 1) / 2 is a Python float, 0.0 when W = 1.
Rescale(src_grid, H, W) ==
    IF src_grid.err \/ src_grid.shape[2] < 2 THEN RaisedError
    ELSE Tensor(src_grid.shape, [i \in Indices(src_grid.shape) |->
             IF i[2] = 0 THEN FSub(FDiv(src_grid.data[i], Frac(W - 1, 2)), Num(1))
             ELSE IF i[2] = 1 THEN FSub(FDiv(src_grid.data[i], Frac(H - 1, 2)), Num(1))
             ELSE src_grid.data[i]])

\* Lines 75-96: the sampling grid handed to grid_sample, (B, D, H*W, 2).
SrcGrid(src_feat, proj_mat, depth_values) ==
    LET B == src_feat.shape[1]
        H == src_feat.shape[3]
        W == src_feat.shape[4]
        D == depth_values.shape[2]
        R == Slice(proj_mat, 3, 0, 3)
        T == Slice(proj_mat, 3, 3, proj_mat.shape[3])
        ref_grid_d == Repeat(RefGrid(B, H, W), D)
        src_grid_d == Add(MatMul(R, ref_grid_d),
                          Div(T, View(depth_values, <<B, 1, D * H * W>>)))
        src_grid == Div(Slice(src_grid_d, 2, 0, 2),
                        Slice(src_grid_d, 2, src_grid_d.shape[2] - 1, src_grid_d.shape[2]))
    IN  View(Permute(Rescale(src_grid, H, W), <<1, 3, 2>>), <<B, D, H * W, 2>>)

\* Faulty variant: the pixel coordinate under align_corners=False.
UnnormalizeNoAlign(coord, size) ==
    FDiv(FSub(FMul(FAdd(coord, Num(1)), Num(size)), Num(1)), Num(2))

\* The pixel coordinate grid_sample computes from a normalized coordinate
\* under align_corners=True.
Unnormalize(coord, size) == FMul(FDiv(FAdd(coord, Num(1)), Num(2)), Num(size - 1))

\* Faulty variant: padding_mode='border', the position clamped into the image.
BilinearSampleBorder(input, b, c, x, y, nonfinite) ==
    LET H == input.shape[3]
        W == input.shape[4]
        Clamp(v, hi) == IF FLess(v, Num(0)) THEN Num(0)
                        ELSE IF FLess(Num(hi), v) THEN Num(hi) ELSE v
        ix == Clamp(Unnormalize(x, W), W - 1)
        iy == Clamp(Unnormalize(y, H), H - 1)
        x0 == Floor(ix)
        y0 == Floor(iy)
        wx1 == FSub(ix, Num(x0))
        wy1 == FSub(iy, Num(y0))
        wx0 == FSub(Num(1), wx1)
        wy0 == FSub(Num(1), wy1)
        Corner(yy, xx, w) ==
            IF 0 <= xx /\ xx < W /\ 0 <= yy /\ yy < H
            THEN FMul(w, input.data[<<b, c, yy, xx>>]) ELSE Num(0)
    IN  IF ~IsFinite(ix) \/ ~IsFinite(iy) THEN nonfinite
        ELSE FAdd(FAdd(Corner(y0, x0, FMul(wy0, wx0)), Corner(y0, x0 + 1, FMul(wy0, wx1))),
                  FAdd(Corner(y0 + 1, x0, FMul(wy1, wx0)), Corner(y0 + 1, x0 + 1, FMul(wy1, wx1))))

\* One bilinear sample of input[b, c] at the normalized position (x, y), with
\* padding_mode='zeros'.  nonfinite is what the build yields for a position
\* that is not a finite number: NaN or 0.
BilinearSample(input, b, c, x, y, nonfinite) ==
    LET H == input.shape[3]
        W == input.shape[4]
        ix == Unnormalize(x, W)
        iy == Unnormalize(y, H)
        x0 == Floor(ix)
        y0 == Floor(iy)
        wx1 == FSub(ix, Num(x0))
        wy1 == FSub(iy, Num(y0))
        wx0 == FSub(Num(1), wx1)
        wy0 == FSub(Num(1), wy1)
        Corner(yy, xx, w) ==
            IF 0 <= xx /\ xx < W /\ 0 <= yy /\ yy < H
            THEN FMul(w, input.data[<<b, c, yy, xx>>]) ELSE Num(0)
    IN  IF ~IsFinite(ix) \/ ~IsFinite(iy) THEN nonfinite
        ELSE FAdd(FAdd(Corner(y0, x0, FMul(wy0, wx0)), Corner(y0, x0 + 1, FMul(wy0, wx1))),
                  FAdd(Corner(y0 + 1, x0, FMul(wy1, wx0)), Corner(y0 + 1, x0 + 1, FMul(wy1, wx1))))

\* F.grid_sample(input, grid, mode='bilinear', padding_mode='zeros',
\* align_corners=True) for input (B, C, H, W) and grid (B, Ho, Wo, 2).
grid_sample(input, grid, nonfinite) ==
    IF input.err \/ grid.err THEN RaisedError
    ELSE IF grid.shape[1] # input.shape[1] \/ grid.shape[4] # 2 THEN RaisedError
    ELSE LET shape == <<input.shape[1], input.shape[2], grid.shape[2], grid.shape[3]>>
         IN  Tensor(shape, [i \in Indices(shape) |->
                 BilinearSample(input, i[1], i[2],
                                grid.data[<<i[1], i[3], i[4], 0>>],
                                grid.data[<<i[1], i[3], i[4], 1>>], nonfinite)])

homo_warp(src_feat, proj_mat, depth_values, nonfinite) ==
    LET B == src_feat.shape[1]
        C == src_feat.shape[2]
        H == src_feat.shape[3]
        W == src_feat.shape[4]
        D == depth_values.shape[2]
    IN  View(grid_sample(src_feat, SrcGrid(src_feat, proj_mat, depth_values), nonfinite),
             <<B, C, D, H, W>>)

-----------------------------------------------------------------------------
(* depth_regression. *)

\* torch.sum(t, 1)
RECURSIVE SumUpto(_, _, _)
SumUpto(t, i, k) ==
    LET Term == t.data[<<i[1], k>> \o Tail(i)]
    IN  IF k = 0 THEN Term ELSE FAdd(SumUpto(t, i, k - 1), Term)

Sum1(t) ==
    IF t.err \/ Ndim(t) < 2 THEN RaisedError
    ELSE LET shape == <<t.shape[1]>> \o Tail(Tail(t.shape))
         IN  Tensor(shape, [i \in Indices(shape) |->
                 IF t.shape[2] = 0 THEN Num(0) ELSE SumUpto(t, i, t.shape[2] - 1)])

\* Faulty variant: depth_values used as it comes.
TrailingAxesNone(dv) == dv

\* Lines 112-113: a depth_values of rank <= 2 gets two trailing axes.
TrailingAxes(dv) == IF Ndim(dv) <= 2 THEN View(dv, dv.shape \o <<1, 1>>) ELSE dv

depth_regression(p, dv) == Sum1(Mul(p, TrailingAxes(dv)))

-----------------------------------------------------------------------------
(* The caller's storage.  A tensor expression either shares the storage of  *)
(* the tensor it is taken from (slicing, view, permute, expand) or owns a   *)
(* new one (arithmetic, matmul, repeat, cat).  Storages are named by the    *)
(* argument they belong to, or "fresh".                                     *)

ViewStorage(s) == s

\* Faulty variant: arithmetic done in place, in the storage of its first operand.
ArithStorageInPlace(a, b) == a

ArithStorage(a, b) == "fresh"

\* Lines 79-91: the storage of src_grid, which lines 93-94 write in place.
SrcGridStorage ==
    LET R == ViewStorage("proj_mat")
        T == ViewStorage("proj_mat")
        ref_grid_d == "fresh"
        src_grid_d == ArithStorage(ArithStorage(R, ref_grid_d),
                                   ArithStorage(T, ViewStorage("depth_values")))
    IN  ArithStorage(ViewStorage(src_grid_d), ViewStorage(src_grid_d))

\* The caller's three tensors after homo_warp returned or raised: the in-place
\* writes of lines 93-94 land in the storage of src_grid.  The del
\* statements of lines 90 and 92 unbind local names only.
CallerAfter(src_feat, proj_mat, depth_values) ==
    LET before == [src_feat |-> src_feat, proj_mat |-> proj_mat,
                   depth_values |-> depth_values]
        written == SrcGrid(src_feat, proj_mat, depth_values)
    IN  IF SrcGridStorage = "fresh" THEN before
        ELSE [before EXCEPT ![SrcGridStorage] = written]

-----------------------------------------------------------------------------
(* Inputs. *)

Batches == 1..MaxBatch

Sides == 1..MaxSide

\* A tensor of distinct positive values base, base+1, ... in row-major order.
Ramp(shape, base) == Tensor(shape, [i \in Indices(shape) |-> Num(base + Offset(shape, i))])

\* The image sizes (B, H, W); the last is the 4x4 map of the end-to-end scenario.
ImageSizes == {<<b, h, w>> : b \in Batches, h \in Sides, w \in Sides} \cup {<<1, 4, 4>>}

CurrentDepths(B, H, W) ==
    {Full(<<B, 1, H, W>>, Num(5)), Full(<<B, 1, H, W>>, Num(10)), Ramp(<<B, 1, H, W>>, 7)}

DepthIntervals(B, H, W) ==
    {Float(Num(1)), Float(Num(2))}
    \cup {Array(Scalar(Num(2)))}
    \cup {Array(Ramp(<<l>>, 1)) : l \in Sides}
    \cup {Array(Ramp(<<b, 1>>, 1)) : b \in Batches}
    \cup {Array(Ramp(<<b, H, W>>, 1)) : b \in Batches}
    \cup {Array(Ramp(<<B, 1, H, W>>, 1))}

Channels == {1, 2}

SrcFeats(B, H, W) == {Ramp(<<B, C, H, W>>, 1) : C \in Channels}

\* Projection matrices (B, rows, cols): the identity, a shift along x (T =
\* (tx, 0, 0)) and a shift along the optical axis (T = (0, 0, 1)).
ProjMat(B, rows, cols, T) ==
    Tensor(<<B, rows, cols>>, [i \in Indices(<<B, rows, cols>>) |->
        IF i[3] = 3 /\ i[2] < 3 THEN Num(T[i[2] + 1])
        ELSE IF i[2] = i[3] THEN Num(1) ELSE Num(0)])

Translations == {<<0, 0, 0>>, <<-3, 0, 0>>, <<0, 0, 1>>}

ProjShapes == {<<3, 4>>, <<4, 4>>, <<3, 3>>}

\* Depth volumes (B, D, H, W) whose slice d holds the depth d + 1.
Slices(B, D, H, W) ==
    Tensor(<<B, D, H, W>>, [i \in Indices(<<B, D, H, W>>) |-> Num(i[2] + 1)])

OneHot(B, D, H, W, k) ==
    Tensor(<<B, D, H, W>>, [i \in Indices(<<B, D, H, W>>) |->
        IF i[2] = k THEN Num(1) ELSE Num(0)])

NonFinite == {NaN, Num(0)}

AllPositive(t) == ~t.err /\ \A i \in DOMAIN t.data : FLess(Num(0), t.data[i])

NotCalled == [called |-> FALSE]

-----------------------------------------------------------------------------
(* The caller: it builds a depth volume, warps a source feature map with    *)
(* it and regresses a depth map, or calls one of the functions on its own.  *)

Init ==
    /\ stage = "start"
    /\ gdv_call = NotCalled
    /\ depth_volume = RaisedError
    /\ warp_call = NotCalled
    /\ sample_grid = RaisedError
    /\ warped_volume = RaisedError
    /\ caller = NotCalled
    /\ reg_call = NotCalled
    /\ depth_map = RaisedError

GetDepthValues ==
    /\ stage = "start"
    /\ \E size \in ImageSizes, n_depths \in 1..MaxDepths :
         \E current_depth \in CurrentDepths(size[1], size[2], size[3]),
            depth_interval \in DepthIntervals(size[1], size[2], size[3]) :
            /\ gdv_call' = [called |-> TRUE, current_depth |-> current_depth,
                            n_depths |-> n_depths, depth_interval |-> depth_interval]
            /\ depth_volume' = get_depth_values(current_depth, n_depths, depth_interval)
    /\ stage' = "depth"
    /\ UNCHANGED <<warp_call, sample_grid, warped_volume, caller, reg_call, depth_map>>

\* What the caller warps: with a depth volume of its own making, any batch
\* sizes and projection shapes; with the volume get_depth_values made of a
\* float interval (positive depths only), a one-channel feature map of the
\* volume's size and the identity projection.
WarpInputs ==
    IF stage = "start"
    THEN UNION {{<<src_feat, ProjMat(b, ps[1], ps[2], T), Slices(bd, 2, hw[1], hw[2])>> :
                    src_feat \in SrcFeats(bs, hw[1], hw[2]),
                    b \in Batches, ps \in ProjShapes, T \in Translations, bd \in Batches} :
                bs \in Batches, hw \in Sides \X Sides}
    ELSE {<<Ramp(<<depth_volume.shape[1], 1, depth_volume.shape[3],
                   depth_volume.shape[4]>>, 1),
            ProjMat(depth_volume.shape[1], 3, 4, <<0, 0, 0>>), depth_volume>>}

\* What the caller regresses: a one-hot or a uniform probability volume,
\* against a depth volume, a flat sequence of D depths or a (1, D) or (B, D)
\* table of them; after a warp, against the depth volume of get_depth_values.
Probabilities(B, D, H, W) ==
    {OneHot(B, D, H, W, k) : k \in 0..(D - 1)} \cup {Full(<<B, D, H, W>>, Frac(1, D))}

RegressionInputs ==
    IF stage = "start"
    THEN UNION {UNION {{<<p, dv>> : p \in Probabilities(s[1], D, s[2], s[3]),
                                   dv \in {Ramp(<<s[1], D, s[2], s[3]>>, 2), Ramp(<<D>>, 2),
                                           Ramp(<<1, D>>, 2), Ramp(<<s[1], D>>, 2)}} :
                       D \in 1..MaxDepths} :
                s \in Batches \X Sides \X Sides}
    ELSE {<<OneHot(depth_volume.shape[1], depth_volume.shape[2],
                   depth_volume.shape[3], depth_volume.shape[4], k), depth_volume>> :
            k \in 0..(depth_volume.shape[2] - 1)}

HomoWarp ==
    /\ stage = "start" \/ (stage = "depth" /\ gdv_call.depth_interval.float
                             /\ AllPositive(depth_volume))
    /\ \E inp \in WarpInputs, nonfinite \in NonFinite :
         /\ warp_call' = [called |-> TRUE, src_feat |-> inp[1], proj_mat |-> inp[2],
                          depth_values |-> inp[3], nonfinite |-> nonfinite]
         /\ sample_grid' = SrcGrid(inp[1], inp[2], inp[3])
         /\ warped_volume' = homo_warp(inp[1], inp[2], inp[3], nonfinite)
         /\ caller' = CallerAfter(inp[1], inp[2], inp[3])
    /\ stage' = "warped"
    /\ UNCHANGED <<gdv_call, depth_volume, reg_call, depth_map>>

DepthRegression ==
    /\ stage = "start" \/ (stage = "warped" /\ gdv_call.called)
    /\ \E inp \in RegressionInputs :
         /\ reg_call' = [called |-> TRUE, p |-> inp[1], depth_values |-> inp[2]]
         /\ depth_map' = depth_regression(inp[1], inp[2])
    /\ stage' = "done"
    /\ UNCHANGED <<gdv_call, depth_volume, warp_call, sample_grid, warped_volume, caller>>

Next == GetDepthValues \/ HomoWarp \/ DepthRegression

Spec == Init /\ [][Next]_vars

-----------------------------------------------------------------------------
(* Properties of get_depth_values. *)

\* The arguments of the last get_depth_values call.
CurrentDepthAt(b, h, w) == gdv_call.current_depth.data[<<b, 0, h, w>>]

GdvShape ==
    <<gdv_call.current_depth.shape[1], gdv_call.n_depths,
      gdv_call.current_depth.shape[3], gdv_call.current_depth.shape[4]>>

\* The documented forms of depth_interval: a float, a (B, 1) array or a
\* (B, H, W) array, and the interval each gives pixel (h, w) of batch b.
PerBatchInterval ==
    /\ ~gdv_call.depth_interval.float
    /\ gdv_call.depth_interval.t.shape = <<GdvShape[1], 1>>

PerPixelInterval ==
    /\ ~gdv_call.depth_interval.float
    /\ gdv_call.depth_interval.t.shape = <<GdvShape[1], GdvShape[3], GdvShape[4]>>

DocumentedInterval == gdv_call.depth_interval.float \/ PerBatchInterval \/ PerPixelInterval

IntervalAt(b, h, w) ==
    IF gdv_call.depth_interval.float THEN gdv_call.depth_interval.val
    ELSE IF PerBatchInterval THEN gdv_call.depth_interval.t.data[<<b, 0>>]
    ELSE gdv_call.depth_interval.t.data[<<b, h, w>>]

\* current_depth - (n_depths/2)*interval + d*interval, with n_depths/2 a fraction.
Hypothesis(current, n_depths, interval, d) ==
    FAdd(FSub(current, FMul(Frac(n_depths, 2), interval)), FMul(Num(d), interval))

First(b, h, w) == depth_volume.data[<<b, 0, h, w>>]

Last(b, h, w) == depth_volume.data[<<b, gdv_call.n_depths - 1, h, w>>]

Midpoint(b, h, w) == FDiv(FAdd(First(b, h, w), Last(b, h, w)), Num(2))

EvenlySpaced ==
    \A i \in Indices(GdvShape) :
        i[2] > 0 => FSub(depth_volume.data[i],
                         depth_volume.data[[i EXCEPT ![2] = i[2] - 1]])
                    = IntervalAt(i[1], i[3], i[4])

Pixels == Indices(<<GdvShape[1], GdvShape[3], GdvShape[4]>>)

\* C2, as claimed: the hypotheses are evenly spaced by the interval and the
\* midpoint of the first and the last one is current_depth at every pixel.
C2_CenteredOnEstimate ==
    (gdv_call.called /\ DocumentedInterval) =>
        /\ ~depth_volume.err
        /\ EvenlySpaced
        /\ \A px \in Pixels :
               Midpoint(px[1], px[2], px[3]) = CurrentDepthAt(px[1], px[2], px[3])

\* C2, amended: the hypotheses are evenly spaced by the interval and the
\* midpoint of the first and the last one is current_depth minus half an
\* interval at every pixel.
C2_HalfIntervalBelow ==
    (gdv_call.called /\ DocumentedInterval) =>
        /\ ~depth_volume.err
        /\ EvenlySpaced
        /\ \A px \in Pixels :
               Midpoint(px[1], px[2], px[3]) =
                   FSub(CurrentDepthAt(px[1], px[2], px[3]),
                        FDiv(IntervalAt(px[1], px[2], px[3]), Num(2)))

C2_Witness ==
    /\ gdv_call.called
    /\ PerPixelInterval
    /\ gdv_call.n_depths = 3
    /\ gdv_call.current_depth = Full(<<1, 1, 2, 2>>, Num(10))
    /\ IntervalAt(0, 1, 1) = Num(4)
    /\ First(0, 1, 1) = Num(4)
    /\ Last(0, 1, 1) = Num(12)

\* C7: a (B, H, W) interval gives, at every (b, d, h, w), the value that the
\* float interval depth_interval[b, h, w] gives, and a (B, 1) interval the
\* value that the float interval depth_interval[b, 0] gives.
C7_PerPixelInterval ==
    (gdv_call.called /\ (PerPixelInterval \/ PerBatchInterval)) =>
        /\ ~depth_volume.err
        /\ depth_volume.shape = GdvShape
        /\ \A i \in Indices(GdvShape) :
               depth_volume.data[i] =
                   get_depth_values(gdv_call.current_depth, gdv_call.n_depths,
                                    Float(IntervalAt(i[1], i[3], i[4]))).data[i]

C7_Witness ==
    /\ gdv_call.called
    /\ PerPixelInterval
    /\ GdvShape = <<2, 2, 2, 2>>
    /\ gdv_call.current_depth = Full(<<2, 1, 2, 2>>, Num(10))
    /\ IntervalAt(1, 1, 0) = Num(7)
    /\ depth_volume.data[<<1, 0, 1, 0>>] = Num(3)
    /\ depth_volume.data[<<1, 1, 1, 0>>] = Num(10)
    /\ depth_volume.data[<<1, 1, 0, 0>>] = Num(10)

\* C8: get_depth_values raises, and returns nothing, when depth_interval is an
\* array whose rank is not 2 or 3 or whose leading dimension is not the batch
\* size of current_depth.
C8_InvalidIntervalRaises ==
    (/\ gdv_call.called
     /\ ~gdv_call.depth_interval.float
     /\ \/ Ndim(gdv_call.depth_interval.t) \in {1, 4}
        \/ /\ Ndim(gdv_call.depth_interval.t) \in {2, 3}
           /\ gdv_call.depth_interval.t.shape[1] # GdvShape[1])
    => depth_volume.err

-----------------------------------------------------------------------------
(* Properties of homo_warp. *)

\* The sizes of the last homo_warp call, from src_feat and depth_values.
WarpB == warp_call.src_feat.shape[1]
WarpC == warp_call.src_feat.shape[2]
WarpH == warp_call.src_feat.shape[3]
WarpW == warp_call.src_feat.shape[4]
WarpD == warp_call.depth_values.shape[2]

\* The call is well-formed: a (B, 3, 4) projection and a (B, D, H, W) volume.
WellFormedWarp ==
    /\ warp_call.proj_mat.shape = <<WarpB, 3, 4>>
    /\ warp_call.depth_values.shape = <<WarpB, WarpD, WarpH, WarpW>>

IdentityProjection == warp_call.proj_mat = ProjMat(WarpB, 3, 4, <<0, 0, 0>>)

Reproduced ==
    /\ ~warped_volume.err
    /\ warped_volume.shape = <<WarpB, WarpC, WarpD, WarpH, WarpW>>
    /\ \A i \in Indices(<<WarpB, WarpC, WarpD, WarpH, WarpW>>) :
           warped_volume.data[i] = warp_call.src_feat.data[<<i[1], i[2], i[4], i[5]>>]

\* C4: with the identity projection and positive depths, homo_warp reproduces
\* src_feat at every depth hypothesis, for every size (H, W), H = 1 and W = 1
\* included.
C4_IdentityWarpReproduces ==
    (/\ warp_call.called
     /\ WellFormedWarp
     /\ IdentityProjection
     /\ AllPositive(warp_call.depth_values))
    => Reproduced

\* The normalized sampling position of reference pixel j in slice d of batch
\* b, and the pixel position grid_sample makes of it.
NormX(b, d, j) == sample_grid.data[<<b, d, j, 0>>]
NormY(b, d, j) == sample_grid.data[<<b, d, j, 1>>]
PixelX(b, d, j) == Unnormalize(NormX(b, d, j), WarpW)
PixelY(b, d, j) == Unnormalize(NormY(b, d, j), WarpH)

\* The sampling position is a pair of numbers (at H = 1 or W = 1 the
\* rescaling of lines 93-94 divides by zero and it is not).
FinitePosition(b, d, j) == IsFinite(PixelX(b, d, j)) /\ IsFinite(PixelY(b, d, j))

\* Outside the normalized range -1..1, which is pixel coordinate < 0 or
\* > W - 1 in x, or < 0 or > H - 1 in y.
OutOfFrame(b, d, j) ==
    /\ FinitePosition(b, d, j)
    /\ \/ FLess(NormX(b, d, j), Num(-1)) \/ FLess(Num(1), NormX(b, d, j))
       \/ FLess(NormY(b, d, j), Num(-1)) \/ FLess(Num(1), NormY(b, d, j))

\* A whole pixel or more outside the image.
FarOutside(b, d, j) ==
    /\ FinitePosition(b, d, j)
    /\ \/ FLeq(PixelX(b, d, j), Num(-1)) \/ FLeq(Num(WarpW), PixelX(b, d, j))
       \/ FLeq(PixelY(b, d, j), Num(-1)) \/ FLeq(Num(WarpH), PixelY(b, d, j))

ZeroSlice(b, d) ==
    \A c \in 0..(WarpC - 1), h \in 0..(WarpH - 1), w \in 0..(WarpW - 1) :
        warped_volume.data[<<b, c, d, h, w>>] = Num(0)

RefPixels == 0..(WarpH * WarpW - 1)

\* C5, as claimed: a slice all of whose reference pixels project outside the
\* normalized range -1..1 is zero throughout (read on the sizes H, W >= 2,
\* where the positions are numbers).
C5_OutOfFrameZero ==
    (warp_call.called /\ ~warped_volume.err) =>
        \A b \in 0..(WarpB - 1), d \in 0..(WarpD - 1) :
            (\A j \in RefPixels : OutOfFrame(b, d, j)) => ZeroSlice(b, d)

\* C5, amended: a slice all of whose reference pixels are sampled at a
\* position (a pair of numbers) a whole pixel or more outside the image
\* (x <= -1, x >= W, y <= -1 or y >= H) is zero throughout.
C5_FarOutsideZero ==
    (warp_call.called /\ ~warped_volume.err) =>
        \A b \in 0..(WarpB - 1), d \in 0..(WarpD - 1) :
            (\A j \in RefPixels : FarOutside(b, d, j)) => ZeroSlice(b, d)

C5_Witness ==
    /\ warp_call.called
    /\ ~warped_volume.err
    /\ warp_call.src_feat = Ramp(<<2, 2, 2, 2>>, 1)
    /\ warp_call.proj_mat = ProjMat(2, 3, 4, <<-3, 0, 0>>)
    /\ \A j \in RefPixels : FarOutside(1, 0, j)
    /\ PixelX(1, 0, 3) = Num(-2)
    /\ ZeroSlice(1, 0)
    /\ ~ZeroSlice(1, 1)

\* C9: homo_warp raises, and returns nothing, when the batch sizes of
\* src_feat, proj_mat and depth_values are not all the same or when the last
\* two dimensions of proj_mat are not (3, 4).
C9_InvalidWarpRaises ==
    (/\ warp_call.called
     /\ \/ warp_call.proj_mat.shape[1] # WarpB
        \/ warp_call.depth_values.shape[1] # WarpB
        \/ <<warp_call.proj_mat.shape[2], warp_call.proj_mat.shape[3]>> # <<3, 4>>)
    => warped_volume.err

\* C10: after a homo_warp call the caller's src_feat, proj_mat and
\* depth_values hold what they held before it.
C10_InputsUnchanged ==
    warp_call.called =>
        caller = [src_feat |-> warp_call.src_feat, proj_mat |-> warp_call.proj_mat,
                  depth_values |-> warp_call.depth_values]

C10_Witness ==
    /\ warp_call.called
    /\ ~warped_volume.err
    /\ ~sample_grid.err
    /\ warp_call.src_feat = Ramp(<<2, 1, 2, 2>>, 1)
    /\ warp_call.proj_mat = ProjMat(2, 3, 4, <<0, 0, 1>>)
    /\ NormX(0, 0, 1) = Num(0)
    /\ caller.proj_mat = ProjMat(2, 3, 4, <<0, 0, 1>>)
    /\ caller.depth_values = Slices(2, 2, 2, 2)

-----------------------------------------------------------------------------
(* Properties of depth_regression. *)

RegB == reg_call.p.shape[1]
RegD == reg_call.p.shape[2]
RegH == reg_call.p.shape[3]
RegW == reg_call.p.shape[4]

\* depth_values[:, k] for pixel (h, w) of batch b: of a (B, D, H, W) volume, a
\* flat sequence of D values, or a (1, D) or (B, D) table.
Selected(k, b, h, w) ==
    LET dv == reg_call.depth_values
    IN  IF Ndim(dv) = 4 THEN dv.data[<<b, k, h, w>>]
        ELSE IF Ndim(dv) = 1 THEN dv.data[<<k>>]
        ELSE dv.data[<<IF dv.shape[1] = 1 THEN 0 ELSE b, k>>]

\* C6: for p one-hot at index k at every pixel, depth_regression returns the
\* (B, H, W) map holding depth_values[:, k], for a full volume and for a flat
\* sequence (rank <= 2) alike.
C6_OneHotSelects ==
    reg_call.called =>
        \A k \in 0..(RegD - 1) :
            reg_call.p = OneHot(RegB, RegD, RegH, RegW, k) =>
                /\ ~depth_map.err
                /\ depth_map.shape = <<RegB, RegH, RegW>>
                /\ \A i \in Indices(<<RegB, RegH, RegW>>) :
                       depth_map.data[i] = Selected(k, i[1], i[2], i[3])

C6_Witness ==
    /\ reg_call.called
    /\ reg_call.p = OneHot(2, 3, 2, 2, 1)
    /\ reg_call.depth_values = Ramp(<<3>>, 2)
    /\ depth_map = Full(<<2, 2, 2>>, Num(3))

-----------------------------------------------------------------------------
(* The end-to-end scenario. *)

EndToEnd ==
    /\ stage = "done"
    /\ gdv_call.called
    /\ warp_call.called
    /\ gdv_call.current_depth = Full(<<1, 1, 4, 4>>, Num(5))
    /\ gdv_call.n_depths = 3
    /\ gdv_call.depth_interval = Float(Num(1))
    /\ warp_call.src_feat.shape = <<1, 1, 4, 4>>
    /\ IdentityProjection
    /\ warp_call.depth_values = depth_volume
    /\ reg_call.p = OneHot(1, 3, 4, 4, 1)
    /\ reg_call.depth_values = depth_volume

\* C3, as claimed: the depth values are 4, 5, 6 at every pixel, the warp
\* reproduces the source map at the 3 slices and the regressed map is 5.0.
C3_EndToEnd ==
    EndToEnd =>
        /\ \A i \in Indices(<<1, 3, 4, 4>>) : depth_volume.data[i] = Num(4 + i[2])
        /\ Reproduced
        /\ depth_map = Full(<<1, 4, 4>>, Num(5))

\* C3, amended: the depth values are 3.5, 4.5, 5.5 at every pixel, the warp
\* reproduces the source map at the 3 slices and the regressed map is 4.5.
C3_EndToEndHalf ==
    EndToEnd =>
        /\ depth_volume.shape = <<1, 3, 4, 4>>
        /\ \A i \in Indices(<<1, 3, 4, 4>>) : depth_volume.data[i] = Frac(7 + 2 * i[2], 2)
        /\ Reproduced
        /\ depth_map = Full(<<1, 4, 4>>, Frac(9, 2))

C3_Witness ==
    /\ EndToEnd
    /\ warped_volume.data[<<0, 0, 2, 3, 2>>] = Num(15)
    /\ depth_map.data[<<0, 3, 2>>] = Frac(9, 2)

====
